---- MODULE Spec2Model ----
(***************************************************************************)
(* Order lifecycle and inventory consistency engine of the sales           *)
(* management backend (project/core): Order.save and its stock handling,   *)
(* Batch.calculate_total_profit, the post_save/post_delete receivers, and  *)
(* the request handlers of views.py, serializers.py and admin.py that      *)
(* reach them.                                                             *)
(*                                                                         *)
(* The database is the variables orders, current_stock, sold_quantity,     *)
(* cost_price and total_profit.  A request works on model instances, which *)
(* are copies of rows taken when the request loads them; a context record  *)
(* c carries the database (orders, stock, sold, total) together with the   *)
(* instances of the order being handled: c.self (the Order), c.pstock and  *)
(* c.psold (its cached Product instance) and c.btotal (its cached Batch    *)
(* instance).                                                              *)
(***************************************************************************)
EXTENDS Integers, Sequences, FiniteSets, TLC

VARIABLES orders, current_stock, sold_quantity, cost_price, total_profit,
          nextId, last, pc, mem, products, stock_records, batches

vars == <<orders, current_stock, sold_quantity, cost_price, total_profit,
          nextId, last, pc, mem, products, stock_records, batches>>

\* the product rows that exist, the rows of the stock_record table, in the
\* order of their creation, and the batch rows that exist
ledgerVars == <<products, stock_records, batches>>

\* the requests in flight of the concurrent specification: pc[r] is the
\* position of request r and mem[r] the model instances it has loaded
concVars == <<pc, mem>>

(* ----------------------------- bounds ---------------------------------- *)
InitialStock == 2
MaxStock == 3
MaxSold == 4

Products == {"p1"}
Batches == {"b1"}
Quantities == {1, 2}
UnitPrices == {1, 4}
OtherCostsSet == {1}
CostPrices == {2}
\* the statuses requests ask for: "shipping" is handled by the code exactly
\* as "completed" is, and "refund_requested" exactly as "refunding" is
RequestStatuses ==
    {"pending", "confirmed", "completed", "cancelled", "refunding", "refunded"}

\* the primary keys the model hands out; every handler below touches at most
\* the orders of one request, and two orders are enough for two of them to
\* share a product and a batch
OrderIds == {1, 2}

(* ----------------------------- models.py ------------------------------- *)
ORDER_STATUS_CHOICES ==
    {"pending", "confirmed", "shipping", "completed",
     "cancelled", "refund_requested", "refunding", "refunded"}

CountedStatuses == {"confirmed", "shipping", "completed"}

RECURSIVE SumGross(_, _)
SumGross(ords, S) ==
    IF S = {} THEN 0
    ELSE LET i == CHOOSE j \in S : TRUE
         IN ords[i].gross_profit + SumGross(ords, S \ {i})

\* Sum('gross_profit') over batch.orders.filter(status__in=[...]); None -> 0
AggregateProfit(ords, b) ==
    SumGross(ords, {i \in DOMAIN ords :
                      ords[i].batch = b /\ ords[i].status \in CountedStatuses})

\* calculate_total_profit saving the batch whether or not the total changed
calculate_total_profit_always_saves(c) ==
    LET total == AggregateProfit(c.orders, c.self.batch)
    IN [c EXCEPT !.btotal = total, !.total[c.self.batch] = total,
                 !.bsaves = @ + 1]

\* Batch.calculate_total_profit on the cached batch instance of c.self;
\* c.bsaves counts the calls of Batch.save made by the request
calculate_total_profit(c) ==
    LET total == AggregateProfit(c.orders, c.self.batch)
    IN IF c.btotal # total
       THEN [c EXCEPT !.btotal = total, !.total[c.self.batch] = total,
                      !.bsaves = @ + 1]
       ELSE c

\* post_save receiver
update_batch_profit_on_order_save(c) == calculate_total_profit(c)

\* post_delete receiver
update_batch_profit_on_order_delete(c) == calculate_total_profit(c)

\* product.save writing current_stock only
product_save_forgets_sold(c) ==
    [c EXCEPT !.stock[c.self.product] = c.pstock]

\* product.save(update_fields=['current_stock', 'sold_quantity'])
product_save(c) ==
    [c EXCEPT !.stock[c.self.product] = c.pstock,
              !.sold[c.self.product] = c.psold]

\* super().save(...) of Order: writes the named columns of the instance to
\* its row (inserting the row when it does not exist), then post_save fires.
super_save(c, update_fields) ==
    LET id == c.self.id
        row == IF id \notin DOMAIN c.orders \/ update_fields = "all"
               THEN c.self
               ELSE IF update_fields = "status"
               THEN [c.orders[id] EXCEPT !.status = c.self.status]
               ELSE [c.orders[id] EXCEPT !.quantity = c.self.quantity]
        ords == [j \in DOMAIN c.orders \cup {id} |->
                   IF j = id THEN row ELSE c.orders[j]]
    IN update_batch_profit_on_order_save([c EXCEPT !.orders = ords])

\* reserve_new with the units taken from stock but not added to sold_quantity
reserve_new_forgets_sold(c) ==
    IF c.self.status \in CountedStatuses
    THEN IF c.pstock >= c.self.quantity
         THEN product_save([c EXCEPT !.pstock = @ - c.self.quantity])
         ELSE super_save([c EXCEPT !.self.status = "pending"], "status")
    ELSE c

\* reserve_new without the stock check
reserve_new_unchecked(c) ==
    IF c.self.status \in CountedStatuses
    THEN product_save([c EXCEPT !.pstock = @ - c.self.quantity,
                                !.psold = @ + c.self.quantity])
    ELSE c

\* the reservation of Order.save for a new order, lines 229-239
reserve_new(c) ==
    IF c.self.status \in CountedStatuses
    THEN IF c.pstock >= c.self.quantity
         THEN product_save([c EXCEPT !.pstock = @ - c.self.quantity,
                                     !.psold = @ + c.self.quantity])
         ELSE super_save([c EXCEPT !.self.status = "pending"], "status")
    ELSE c

\* _handle_status_change returning the units whenever an order leaves the
\* counted statuses, whatever status it moves to
_handle_status_change_releases_on_leave(c, old_status, old_quantity) ==
    IF old_status = "pending" /\ c.self.status \in CountedStatuses
    THEN IF c.pstock >= c.self.quantity
         THEN product_save([c EXCEPT !.pstock = @ - c.self.quantity,
                                     !.psold = @ + c.self.quantity])
         ELSE super_save([c EXCEPT !.self.status = "pending"], "status")
    ELSE IF old_status \in CountedStatuses
            /\ c.self.status \notin CountedStatuses
    THEN product_save([c EXCEPT !.pstock = @ + old_quantity,
                                !.psold = @ - old_quantity])
    ELSE c

\* Order._handle_status_change
_handle_status_change(c, old_status, old_quantity) ==
    LET current_status == c.self.status
        quantity_diff == c.self.quantity - old_quantity
    IN IF old_status = "pending" /\ current_status \in CountedStatuses
       THEN IF c.pstock >= c.self.quantity
            THEN product_save([c EXCEPT !.pstock = @ - c.self.quantity,
                                        !.psold = @ + c.self.quantity])
            ELSE super_save([c EXCEPT !.self.status = "pending"], "status")
       ELSE IF old_status \in CountedStatuses
               /\ current_status \in {"cancelled", "refunded"}
       THEN product_save([c EXCEPT !.pstock = @ + old_quantity,
                                   !.psold = @ - old_quantity])
       ELSE IF old_status \in CountedStatuses
               /\ current_status \in CountedStatuses
               /\ old_quantity # c.self.quantity
       THEN IF c.pstock >= quantity_diff
            THEN product_save([c EXCEPT !.pstock = @ - quantity_diff,
                                        !.psold = @ + quantity_diff])
            ELSE super_save([c EXCEPT !.self.quantity = old_quantity],
                            "quantity")
       ELSE c

\* the derived fields Order.save computes before saving, lines 197-211;
\* cp is the cost price held by the cached product instance
derive(o, cp) ==
    LET sales == o.quantity * o.unit_price
        cost == (cp * o.quantity) + o.other_costs
    IN [o EXCEPT !.sales_amount = sales,
                 !.total_cost = cost,
                 !.gross_profit = sales - cost]

\* Order.save
Order_save(c0, cp, update_fields) ==
    LET c == [c0 EXCEPT !.self = derive(c0.self, cp)]
        is_new == c.self.id \notin DOMAIN c.orders
    IN IF is_new
       THEN calculate_total_profit(reserve_new(super_save(c, "all")))
       ELSE LET old_status == c.orders[c.self.id].status
                old_quantity == c.orders[c.self.id].quantity
                saved == super_save(c, update_fields)
            IN calculate_total_profit(
                 IF old_status # c.self.status
                 THEN _handle_status_change(saved, old_status, old_quantity)
                 ELSE saved)

(* ------------------------- request plumbing ---------------------------- *)
\* a request loads instance o with its related product and batch rows
Load(o) ==
    [orders |-> orders, stock |-> current_stock, sold |-> sold_quantity,
     total |-> total_profit, self |-> o,
     pstock |-> current_stock[o.product], psold |-> sold_quantity[o.product],
     btotal |-> total_profit[o.batch], bsaves |-> 0]

InBounds(c) ==
    \A p \in Products : c.stock[p] <= MaxStock /\ c.sold[p] <= MaxSold
                        /\ c.sold[p] >= -MaxSold /\ c.stock[p] >= -MaxStock

\* the writes of a request reach the database
CommitDb(c) ==
    /\ InBounds(c)
    /\ orders' = c.orders
    /\ current_stock' = c.stock
    /\ sold_quantity' = c.sold
    /\ total_profit' = c.total
    /\ UNCHANGED <<cost_price, ledgerVars>>

\* a request that runs alone, from loading its instances to its response
Commit(c) == CommitDb(c) /\ UNCHANGED concVars

\* the response of the request that ran last: "ok" for a 2xx response with
\* nothing refused, "error" for a 400 or a non-empty errors list
Respond(res) ==
    last' = [res |-> res]

Rejected ==
    /\ Respond("error")
    /\ UNCHANGED <<orders, current_stock, sold_quantity, cost_price,
                   total_profit, nextId>>
    /\ UNCHANGED <<concVars, ledgerVars>>

NewOrder(b, p, q, up, oc, st) ==
    [id |-> nextId, batch |-> b, product |-> p, quantity |-> q,
     unit_price |-> up, other_costs |-> oc, status |-> st,
     sales_amount |-> 0, total_cost |-> 0, gross_profit |-> 0]

(* ----------------------------- views.py -------------------------------- *)
\* OrderCreateSerializer.validate without the stock check
OrderCreateSerializer_validate_accepts(product_current_stock, q, st) == TRUE

\* OrderCreateSerializer.validate
OrderCreateSerializer_validate(product_current_stock, q, st) ==
    ~(st \in CountedStatuses /\ product_current_stock < q)

\* POST /orders/ : OrderViewSet.create -> perform_create -> Order.save
perform_create(b, p, q, up, oc, st) ==
    /\ nextId \in OrderIds
    /\ IF OrderCreateSerializer_validate(current_stock[p], q, st)
       THEN /\ Commit(Order_save(Load(NewOrder(b, p, q, up, oc, st)),
                                 cost_price[p], "all"))
            /\ nextId' = nextId + 1
            /\ Respond("ok")
       ELSE Rejected

\* POST /batches/{id}/add_orders/ with one order in the list
add_orders(b, p, q, up, oc, st) ==
    /\ nextId \in OrderIds
    /\ Commit(Order_save(Load(NewOrder(b, p, q, up, oc, st)),
                         cost_price[p], "all"))
    /\ nextId' = nextId + 1
    /\ Respond("ok")

\* update_status without its stock check
update_status_short_skipped(c, new_status) == FALSE

\* the stock check of OrderViewSet.update_status, lines 452-456, made on the
\* cached product instance
update_status_short(c, new_status) ==
    /\ c.self.status = "pending"
    /\ new_status \in CountedStatuses
    /\ c.pstock < c.self.quantity

\* the body of OrderViewSet.update_status once the stock check has passed
update_status_body(c, new_status) ==
    LET old_status == c.self.status
        q == c.self.quantity
        c1 == IF old_status = "pending" /\ new_status \in CountedStatuses
              THEN product_save([c EXCEPT !.pstock = @ - q, !.psold = @ + q])
              ELSE IF old_status \in CountedStatuses
                      /\ new_status \in {"cancelled", "refunded"}
              THEN product_save([c EXCEPT !.pstock = @ + q, !.psold = @ - q])
              ELSE c
        c2 == Order_save([c1 EXCEPT !.self.status = new_status],
                         cost_price[c.self.product], "status")
    IN calculate_total_profit(c2)

\* POST /orders/{id}/update_status/
update_status(i, new_status) ==
    /\ i \in DOMAIN orders
    /\ new_status \in ORDER_STATUS_CHOICES
    /\ UNCHANGED nextId
    /\ IF update_status_short(Load(orders[i]), new_status)
       THEN Rejected
       ELSE /\ Commit(update_status_body(Load(orders[i]), new_status))
            /\ Respond("ok")

\* POST /orders/batch_update_status/ : one pass of the loop body, for the
\* order snap.orders[i] of the queryset evaluated when the loop started
batch_update_one(d, snap, i, new_status) ==
    LET o == snap.orders[i]
        c == [orders |-> d.orders, stock |-> d.stock, sold |-> d.sold,
              total |-> d.total, self |-> o,
              pstock |-> snap.stock[o.product],
              psold |-> snap.sold[o.product],
              btotal |-> snap.total[o.batch], bsaves |-> 0]
        old_status == o.status
        reserving == old_status = "pending" /\ new_status \in CountedStatuses
    IN IF reserving /\ c.pstock < o.quantity
       THEN d
       ELSE LET c1 == IF reserving
                      THEN product_save(
                             [c EXCEPT !.pstock = @ - o.quantity,
                                       !.psold = @ + o.quantity])
                      ELSE c
                c2 == Order_save([c1 EXCEPT !.self.status = new_status],
                                 cost_price[o.product], "status")
                c3 == calculate_total_profit(c2)
            IN [orders |-> c3.orders, stock |-> c3.stock, sold |-> c3.sold,
                total |-> c3.total, updated_count |-> d.updated_count + 1]

RECURSIVE batch_update_loop(_, _, _, _)
batch_update_loop(d, snap, ids, new_status) ==
    IF ids = <<>> THEN d
    ELSE batch_update_loop(batch_update_one(d, snap, Head(ids), new_status),
                           snap, Tail(ids), new_status)

\* the orders of a queryset, in the order the database returns them
\* (Meta.ordering is by the client-supplied order_date, so any order)
QuerysetOrders ==
    {ids \in UNION {[1..n -> DOMAIN orders] : n \in 1..2} :
        \A a, b \in DOMAIN ids : a # b => ids[a] # ids[b]}

batch_update_status(ids, new_status) ==
    /\ ids \in QuerysetOrders
    /\ new_status \in ORDER_STATUS_CHOICES
    /\ UNCHANGED nextId
    /\ LET snap == [orders |-> orders, stock |-> current_stock,
                    sold |-> sold_quantity, total |-> total_profit]
           d == batch_update_loop([snap EXCEPT !.orders = orders]
                                    @@ [updated_count |-> 0],
                                  snap, ids, new_status)
       IN /\ Commit(d)
          /\ Respond(IF d.updated_count = Len(ids) THEN "ok" ELSE "error")

(* -------------------------- serializers.py ----------------------------- *)
\* OrderUpdateSerializer.validate
OrderUpdateSerializer_validate(instance, new_quantity, new_status) ==
    LET quantity_diff ==
            new_quantity - (IF instance.status # "pending"
                            THEN instance.quantity ELSE 0)
    IN ~( /\ \/ instance.status = "pending" /\ new_status \in CountedStatuses
             \/ new_quantity > instance.quantity
                /\ new_status \in CountedStatuses
          /\ current_stock[instance.product] < quantity_diff )

\* PUT /orders/{id}/ : OrderUpdateSerializer, then instance.save()
perform_update(i, q, up, oc, st) ==
    /\ i \in DOMAIN orders
    /\ UNCHANGED nextId
    /\ IF OrderUpdateSerializer_validate(orders[i], q, st)
       THEN /\ Commit(Order_save(
                 Load([orders[i] EXCEPT !.quantity = q, !.unit_price = up,
                                        !.other_costs = oc, !.status = st]),
                 cost_price[orders[i].product], "all"))
            /\ Respond("ok")
       ELSE Rejected

\* a deletion that gives the units of a counted order back to its product
perform_destroy_releasing(i) ==
    /\ i \in DOMAIN orders
    /\ UNCHANGED nextId
    /\ LET c == Load(orders[i])
           rest == [j \in DOMAIN orders \ {i} |-> orders[j]]
           c1 == IF orders[i].status \in CountedStatuses
                 THEN product_save([c EXCEPT !.pstock = @ + orders[i].quantity,
                                             !.psold = @ - orders[i].quantity])
                 ELSE c
       IN Commit(update_batch_profit_on_order_delete(
                   [c1 EXCEPT !.orders = rest]))
    /\ Respond("ok")

\* DELETE /orders/{id}/ : instance.delete(), then post_delete fires
perform_destroy(i) ==
    /\ i \in DOMAIN orders
    /\ UNCHANGED nextId
    /\ LET c == Load(orders[i])
           rest == [j \in DOMAIN orders \ {i} |-> orders[j]]
       IN Commit(update_batch_profit_on_order_delete(
                   [c EXCEPT !.orders = rest]))
    /\ Respond("ok")

\* DELETE /batches/{id}/ : the orders of the batch are deleted with it
\* (on_delete=CASCADE), post_delete fires for each of them once their rows
\* are gone, and then the batch row is deleted
BatchViewSet_destroy(b) ==
    /\ b \in batches
    /\ UNCHANGED nextId
    /\ LET rest == [j \in {k \in DOMAIN orders : orders[k].batch # b} |->
                      orders[j]]
           c == [orders |-> rest, stock |-> current_stock,
                 sold |-> sold_quantity, total |-> total_profit,
                 self |-> [batch |-> b], pstock |-> 0, psold |-> 0,
                 btotal |-> total_profit[b], bsaves |-> 0]
           d == update_batch_profit_on_order_delete(c)
       IN /\ InBounds(d)
          /\ orders' = d.orders
          /\ total_profit' = IF rest = orders THEN total_profit ELSE d.total
          /\ batches' = batches \ {b}
    /\ Respond("ok")
    /\ UNCHANGED <<current_stock, sold_quantity, cost_price, products,
                   stock_records, concVars>>

\* POST /batches/{id}/recalculate_profit/ : get_object, then
\* calculate_total_profit on that instance; the response carries the total,
\* and last also records the batch, the number of Batch.save calls made and
\* whether the request before this one was the same recalculation
recalculate_profit(b) ==
    /\ b \in Batches
    /\ UNCHANGED nextId
    /\ LET c == [orders |-> orders, stock |-> current_stock,
                 sold |-> sold_quantity, total |-> total_profit,
                 self |-> [batch |-> b], pstock |-> 0, psold |-> 0,
                 btotal |-> total_profit[b], bsaves |-> 0]
           d == calculate_total_profit(c)
       IN /\ Commit(d)
          /\ last' = [res |-> "ok", recalculated |-> b,
                      total_profit |-> d.btotal, saves |-> d.bsaves,
                      repeated |-> /\ "recalculated" \in DOMAIN last
                                   /\ last.recalculated = b]

(* ------------------------------ admin.py ------------------------------- *)
\* OrderAdmin.save_model for a change form: obj.save() with the form's
\* status, quantity, unit_price and other_costs
save_model(i, q, up, oc, st) ==
    /\ i \in DOMAIN orders
    /\ UNCHANGED nextId
    /\ Commit(Order_save(
         Load([orders[i] EXCEPT !.quantity = q, !.unit_price = up,
                                !.other_costs = oc, !.status = st]),
         cost_price[orders[i].product], "all"))
    /\ Respond("ok")

\* queryset.filter(status__in=from).update(status=to) of the OrderAdmin
\* actions: the rows are written without Order.save and without post_save
queryset_update(ids, from, to) ==
    /\ ids \subseteq DOMAIN orders
    /\ ids # {}
    /\ orders' = [i \in DOMAIN orders |->
                    IF i \in ids /\ orders[i].status \in from
                    THEN [orders[i] EXCEPT !.status = to]
                    ELSE orders[i]]
    /\ Respond("ok")
    /\ UNCHANGED <<current_stock, sold_quantity, cost_price, total_profit,
                   nextId, concVars, ledgerVars>>

\* OrderAdmin actions
confirm_orders(ids) == queryset_update(ids, {"pending"}, "confirmed")

cancel_orders(ids) == queryset_update(ids, {"pending", "confirmed"}, "cancelled")

mark_as_completed(ids) == queryset_update(ids, {"shipping"}, "completed")

(* ------------------------ concurrent requests -------------------------- *)
\* Two requests served at the same time.  A request first loads its model
\* instances (get_object or the serializer's related-field lookups run
\* before transaction.atomic() is entered, and nothing locks the rows), and
\* then runs its handler on those instances against the database as it is
\* by then.
Requests == {1, 2}

ConcStatuses == {"confirmed", "cancelled"}

NoInstances ==
    [kind |-> "none", self |-> [id |-> 0], new_status |-> "pending",
     pstock |-> 0, psold |-> 0, btotal |-> 0, taken |-> 0, res |-> "none"]

\* the context of request r: the database now, the instances as loaded
Resume(r, o) ==
    [orders |-> orders, stock |-> current_stock, sold |-> sold_quantity,
     total |-> total_profit, self |-> o,
     pstock |-> mem[r].pstock, psold |-> mem[r].psold,
     btotal |-> mem[r].btotal, bsaves |-> 0]

\* orders to work on: add_orders with status pending, while nothing runs
conc_setup(b, p, q, up, oc) ==
    /\ \A r \in Requests : pc[r] = "idle"
    /\ add_orders(b, p, q, up, oc, "pending")

\* update_status, line 438: order = self.get_object()
begin_update_status(r, i, new_status) ==
    /\ pc[r] = "idle"
    /\ i \in DOMAIN orders
    /\ pc' = [pc EXCEPT ![r] = "loaded"]
    /\ mem' = [mem EXCEPT ![r] =
                 [kind |-> "update_status", self |-> orders[i],
                  new_status |-> new_status,
                  pstock |-> current_stock[orders[i].product],
                  psold |-> sold_quantity[orders[i].product],
                  btotal |-> total_profit[orders[i].batch],
                  taken |-> 0, res |-> "none"]]
    /\ UNCHANGED <<orders, current_stock, sold_quantity, cost_price,
                   total_profit, nextId, last, ledgerVars>>

\* update_status, lines 447-477, on the instances loaded by line 438
finish_update_status(r) ==
    /\ pc[r] = "loaded"
    /\ mem[r].kind = "update_status"
    /\ mem[r].self.id \in DOMAIN orders
    /\ pc' = [pc EXCEPT ![r] = "done"]
    /\ UNCHANGED nextId
    /\ LET c == Resume(r, mem[r].self)
       IN IF update_status_short(c, mem[r].new_status)
          THEN /\ mem' = [mem EXCEPT ![r].res = "error"]
               /\ Respond("error")
               /\ UNCHANGED <<orders, current_stock, sold_quantity,
                              cost_price, total_profit, ledgerVars>>
          ELSE LET d == update_status_body(c, mem[r].new_status)
               IN /\ CommitDb(d)
                  /\ mem' = [mem EXCEPT ![r].res = "ok",
                                        ![r].taken = c.pstock - d.pstock]
                  /\ Respond("ok")

\* POST /orders/ : the serializer resolves product and batch
begin_create(r, b, p, q, up, oc, st) ==
    /\ pc[r] = "idle"
    /\ pc' = [pc EXCEPT ![r] = "loaded"]
    /\ mem' = [mem EXCEPT ![r] =
                 [kind |-> "create",
                  self |-> [NewOrder(b, p, q, up, oc, st) EXCEPT !.id = 0],
                  new_status |-> st,
                  pstock |-> current_stock[p], psold |-> sold_quantity[p],
                  btotal |-> total_profit[b], taken |-> 0, res |-> "none"]]
    /\ UNCHANGED <<orders, current_stock, sold_quantity, cost_price,
                   total_profit, nextId, last, ledgerVars>>

\* POST /orders/ : validate on the resolved product, then Order.save
finish_create(r) ==
    /\ pc[r] = "loaded"
    /\ mem[r].kind = "create"
    /\ nextId \in OrderIds
    /\ pc' = [pc EXCEPT ![r] = "done"]
    /\ LET o == [mem[r].self EXCEPT !.id = nextId]
           c == Resume(r, o)
       IN IF OrderCreateSerializer_validate(c.pstock, o.quantity, o.status)
          THEN LET d == Order_save(c, cost_price[o.product], "all")
               IN /\ CommitDb(d)
                  /\ nextId' = nextId + 1
                  /\ mem' = [mem EXCEPT ![r].res = "ok",
                                        ![r].taken = c.pstock - d.pstock]
                  /\ Respond("ok")
          ELSE /\ mem' = [mem EXCEPT ![r].res = "error"]
               /\ Respond("error")
               /\ UNCHANGED <<orders, current_stock, sold_quantity,
                              cost_price, total_profit, nextId, ledgerVars>>

\* POST /batches/{id}/recalculate_profit/ served next to other requests.
\* The view opens no transaction, so get_object, the aggregate query and
\* Batch.save are three statements that other requests can come between.
\* recalculate_profit, line 361: batch = self.get_object()
begin_recalculate_profit(r, b) ==
    /\ pc[r] = "idle"
    /\ b \in Batches
    /\ pc' = [pc EXCEPT ![r] = "loaded"]
    /\ mem' = [mem EXCEPT ![r] =
                 [kind |-> "recalculate_profit", self |-> [id |-> 0],
                  new_status |-> "pending", pstock |-> 0, psold |-> 0,
                  btotal |-> total_profit[b], taken |-> 0, res |-> "none",
                  batch |-> b, total |-> 0]]
    /\ UNCHANGED <<orders, current_stock, sold_quantity, cost_price,
                   total_profit, nextId, last, ledgerVars>>

\* calculate_total_profit, lines 97-105: the aggregate over the orders
aggregate_recalculate_profit(r) ==
    /\ pc[r] = "loaded"
    /\ mem[r].kind = "recalculate_profit"
    /\ pc' = [pc EXCEPT ![r] = "summed"]
    /\ mem' = [mem EXCEPT ![r].total = AggregateProfit(orders, mem[r].batch)]
    /\ UNCHANGED <<orders, current_stock, sold_quantity, cost_price,
                   total_profit, nextId, last, ledgerVars>>

\* calculate_total_profit, lines 108-112: the comparison with the loaded
\* instance and the save, then the response
finish_recalculate_profit(r) ==
    /\ pc[r] = "summed"
    /\ mem[r].kind = "recalculate_profit"
    /\ pc' = [pc EXCEPT ![r] = "done"]
    /\ mem' = [mem EXCEPT ![r].res = "ok", ![r].btotal = mem[r].total]
    /\ total_profit' = IF mem[r].btotal # mem[r].total
                       THEN [total_profit EXCEPT ![mem[r].batch] = mem[r].total]
                       ELSE total_profit
    /\ Respond("ok")
    /\ UNCHANGED <<orders, current_stock, sold_quantity, cost_price, nextId,
                   ledgerVars>>

(* ------------------- stock movements and products ---------------------- *)
MaxRecords == 1

\* the quantities and the after_stock values that movement requests carry
MovementQuantities == {-1, 1, 2, 3}
AfterStocks == {-1, 0}

\* the values a product update writes
NewCostPrices == {2, 3}
NewStocks == {0, InitialStock}

OPERATION_CHOICES == {"in", "out", "adjust"}

\* new_stock with an 'out' movement that is not clamped
new_stock_unclamped(operation_type, stock, quantity) ==
    CASE operation_type = "in" -> stock + quantity
      [] operation_type = "out" -> stock - quantity
      [] operation_type = "adjust" -> quantity
      [] OTHER -> stock

\* the stock StockRecord.save computes for a new record, lines 338-345
new_stock(operation_type, stock, quantity) ==
    CASE operation_type = "in" -> stock + quantity
      [] operation_type = "out" ->
            IF stock - quantity > 0 THEN stock - quantity ELSE 0
      [] operation_type = "adjust" -> quantity
      [] OTHER -> stock

\* StockRecord.save of a new record of product p: the snapshots are taken
\* from the product instance, the product is saved, then the record
StockRecord_save(p, operation_type, quantity) ==
    LET before_stock == current_stock[p]
        after_stock == new_stock(operation_type, current_stock[p], quantity)
    IN /\ Len(stock_records) < MaxRecords
       /\ after_stock \in -MaxStock..MaxStock
       /\ current_stock' = [current_stock EXCEPT ![p] = after_stock]
       /\ stock_records' =
            Append(stock_records,
                   [product |-> p, operation_type |-> operation_type,
                    quantity |-> quantity, before_stock |-> before_stock,
                    after_stock |-> after_stock])
       /\ UNCHANGED <<orders, sold_quantity, cost_price, total_profit,
                      nextId, products, batches, concVars>>

\* StockRecordCreateSerializer.validate; after_stock is a required field of
\* the serializer for every operation type
StockRecordCreateSerializer_validate(p, operation_type, quantity, after_stock) ==
    IF operation_type = "adjust"
    THEN after_stock >= 0
    ELSE /\ ~(operation_type = "out" /\ quantity > current_stock[p])
         /\ quantity > 0

\* POST /stock-records/ : StockRecordViewSet.perform_create
stock_record_create(p, operation_type, quantity, after_stock) ==
    IF /\ p \in products
       /\ operation_type \in OPERATION_CHOICES
       /\ StockRecordCreateSerializer_validate(p, operation_type, quantity,
                                               after_stock)
    THEN StockRecord_save(p, operation_type, quantity) /\ Respond("ok")
    ELSE Rejected

\* POST /products/{id}/stock_in/ : StockInSerializer (quantity min_value=1)
stock_in(p, quantity) ==
    IF p \in products /\ quantity >= 1
    THEN StockRecord_save(p, "in", quantity) /\ Respond("ok")
    ELSE Rejected

\* StockRecordAdmin.save_model for the add form: obj.save() with the form's
\* product, operation_type and quantity
StockRecordAdmin_add(p, operation_type, quantity) ==
    /\ p \in products
    /\ operation_type \in OPERATION_CHOICES
    /\ StockRecord_save(p, operation_type, quantity)
    /\ Respond("ok")

\* StockRecordAdmin.save_model for the change form of record k: the record
\* has a pk, so StockRecord.save only writes the row
StockRecordAdmin_change(k, operation_type, quantity) ==
    /\ k \in DOMAIN stock_records
    /\ operation_type \in OPERATION_CHOICES
    /\ stock_records' = [stock_records EXCEPT
                           ![k].operation_type = operation_type,
                           ![k].quantity = quantity]
    /\ Respond("ok")
    /\ UNCHANGED <<orders, current_stock, sold_quantity, cost_price,
                   total_profit, nextId, products, batches, concVars>>

\* PUT /products/{id}/ : ProductSerializer writes cost_price and
\* current_stock (only sold_quantity is read-only)
ProductViewSet_update(p, cp, cs) ==
    /\ p \in products
    /\ cost_price' = [cost_price EXCEPT ![p] = cp]
    /\ current_stock' = [current_stock EXCEPT ![p] = cs]
    /\ Respond("ok")
    /\ UNCHANGED <<orders, sold_quantity, total_profit, nextId, concVars,
                   ledgerVars>>

\* DELETE /products/{id}/ : refused while an order references the product
\* (on_delete=PROTECT); the product's stock records go with it
\* (on_delete=CASCADE)
ProductViewSet_destroy(p) ==
    /\ p \in products
    /\ IF \E i \in DOMAIN orders : orders[i].product = p
       THEN Rejected
       ELSE /\ products' = products \ {p}
            /\ stock_records' =
                 SelectSeq(stock_records, LAMBDA r : r.product # p)
            /\ Respond("ok")
            /\ UNCHANGED <<orders, current_stock, sold_quantity, cost_price,
                           total_profit, nextId, concVars, batches>>

(* --------------------------- specification ----------------------------- *)
Init ==
    /\ orders = <<>>
    /\ current_stock = [p \in Products |-> InitialStock]
    /\ sold_quantity = [p \in Products |-> 0]
    /\ cost_price \in [Products -> CostPrices]
    /\ total_profit = [b \in Batches |-> 0]
    /\ nextId = 1
    /\ last = [res |-> "ok"]
    /\ pc = [r \in Requests |-> "idle"]
    /\ mem = [r \in Requests |-> NoInstances]
    /\ products = Products
    /\ stock_records = <<>>
    /\ batches = Batches

Next ==
    \/ \E b \in Batches, p \in Products, q \in Quantities, up \in UnitPrices,
          oc \in OtherCostsSet, st \in RequestStatuses :
          perform_create(b, p, q, up, oc, st)
    \/ \E b \in Batches, p \in Products, q \in Quantities, up \in UnitPrices,
          oc \in OtherCostsSet, st \in RequestStatuses :
          add_orders(b, p, q, up, oc, st)
    \/ \E i \in OrderIds, st \in RequestStatuses : update_status(i, st)
    \/ \E ids \in QuerysetOrders, st \in RequestStatuses :
          batch_update_status(ids, st)
    \/ \E i \in DOMAIN orders, q \in Quantities, st \in RequestStatuses :
          perform_update(i, q, orders[i].unit_price, orders[i].other_costs, st)
    \/ \E i \in DOMAIN orders, up \in UnitPrices, oc \in OtherCostsSet :
          perform_update(i, orders[i].quantity, up, oc, orders[i].status)
    \/ \E i \in OrderIds : perform_destroy(i)
    \/ \E i \in DOMAIN orders, q \in Quantities, st \in RequestStatuses :
          save_model(i, q, orders[i].unit_price, orders[i].other_costs, st)

Spec == Init /\ [][Next]_vars

NextConc ==
    \/ \E b \in Batches, p \in Products, q \in Quantities, up \in UnitPrices,
          oc \in OtherCostsSet : conc_setup(b, p, q, up, oc)
    \/ \E r \in Requests, i \in OrderIds, st \in ConcStatuses :
          begin_update_status(r, i, st)
    \/ \E r \in Requests : finish_update_status(r)
    \/ \E r \in Requests, b \in Batches, p \in Products, q \in Quantities,
          up \in UnitPrices, oc \in OtherCostsSet, st \in ConcStatuses :
          begin_create(r, b, p, q, up, oc, st)
    \/ \E r \in Requests : finish_create(r)

SpecConc == Init /\ [][NextConc]_vars

\* the stock ledger on its own: movements recorded through the API and the
\* admin, changes of records, and deletion of the product
NextStock ==
    \/ \E p \in Products, op \in OPERATION_CHOICES, q \in MovementQuantities,
          a \in AfterStocks : stock_record_create(p, op, q, a)
    \/ \E p \in Products, q \in MovementQuantities : stock_in(p, q)
    \/ \E p \in Products, op \in OPERATION_CHOICES, q \in MovementQuantities :
          StockRecordAdmin_add(p, op, q)
    \/ \E k \in DOMAIN stock_records, op \in OPERATION_CHOICES,
          q \in MovementQuantities : StockRecordAdmin_change(k, op, q)
    \/ \E p \in Products : ProductViewSet_destroy(p)
    \/ \E p \in Products, cs \in NewStocks :
          ProductViewSet_update(p, cost_price[p], cs)

SpecStock == Init /\ [][NextStock]_vars

\* one order and its product: the order is created, updated and moved
\* between statuses while the product's cost price is edited
NextProduct ==
    \/ \E b \in Batches, p \in products, q \in Quantities, up \in UnitPrices,
          oc \in OtherCostsSet, st \in RequestStatuses :
          nextId = 1 /\ add_orders(b, p, q, up, oc, st)
    \/ \E i \in DOMAIN orders, st \in RequestStatuses : update_status(i, st)
    \/ \E i \in DOMAIN orders, q \in Quantities, up \in UnitPrices,
          oc \in OtherCostsSet :
          perform_update(i, q, up, oc, orders[i].status)
    \/ \E p \in Products, cp \in NewCostPrices :
          ProductViewSet_update(p, cp, current_stock[p])

SpecProduct == Init /\ [][NextProduct]_vars

\* a batch whose orders are created through add_orders and moved by the
\* admin actions, and whose profit is recalculated on request
NextBatch ==
    \/ \E b \in Batches, p \in products, q \in Quantities, up \in UnitPrices,
          oc \in OtherCostsSet, st \in RequestStatuses :
          add_orders(b, p, q, up, oc, st)
    \/ \E ids \in SUBSET OrderIds : confirm_orders(ids)
    \/ \E ids \in SUBSET OrderIds : cancel_orders(ids)
    \/ \E ids \in SUBSET OrderIds : mark_as_completed(ids)
    \/ \E i \in DOMAIN orders : update_status(i, "shipping")
    \/ \E b \in Batches : recalculate_profit(b)

SpecBatch == Init /\ [][NextBatch]_vars

\* the operations on orders next to the stock movements of the API, on the
\* same product; the statuses asked for are one of each kind (uncounted,
\* two counted ones, released), which is what the stock handling looks at
UnitsStatuses == {"pending", "confirmed", "completed", "cancelled"}

\* one unit price: no stock handling reads the price
UnitsUnitPrices == {1}

\* two orders are handled around one stock movement
NextUnits ==
    \/ \E b \in Batches, p \in Products, q \in Quantities,
          up \in UnitsUnitPrices, oc \in OtherCostsSet, st \in UnitsStatuses :
          perform_create(b, p, q, up, oc, st)
    \/ \E i \in OrderIds, st \in UnitsStatuses : update_status(i, st)
    \/ \E ids \in QuerysetOrders, st \in UnitsStatuses :
          batch_update_status(ids, st)
    \/ \E i \in DOMAIN orders, q \in Quantities, st \in UnitsStatuses :
          perform_update(i, q, orders[i].unit_price, orders[i].other_costs, st)
    \/ \E i \in OrderIds : perform_destroy(i)
    \/ \E p \in Products, op \in OPERATION_CHOICES, q \in MovementQuantities,
          a \in AfterStocks :
          stock_records = <<>> /\ stock_record_create(p, op, q, a)
    \/ \E p \in Products, q \in MovementQuantities :
          stock_records = <<>> /\ stock_in(p, q)

SpecUnits == Init /\ [][NextUnits]_vars

\* orders are created in the batches that exist and deleted, one by one or
\* with their batch
NextDelete ==
    \/ \E b \in batches, p \in Products, q \in Quantities, up \in UnitPrices,
          oc \in OtherCostsSet, st \in RequestStatuses :
          perform_create(b, p, q, up, oc, st)
    \/ \E i \in OrderIds : perform_destroy(i)
    \/ \E b \in Batches : BatchViewSet_destroy(b)

SpecDelete == Init /\ [][NextDelete]_vars

\* recalculations of a batch running while orders are added to it
NextRecalc ==
    \/ \E b \in Batches, p \in Products, q \in Quantities, up \in UnitPrices,
          oc \in OtherCostsSet, st \in ConcStatuses :
          add_orders(b, p, q, up, oc, st)
    \/ \E r \in Requests, b \in Batches : begin_recalculate_profit(r, b)
    \/ \E r \in Requests : aggregate_recalculate_profit(r)
    \/ \E r \in Requests : finish_recalculate_profit(r)

SpecRecalc == Init /\ [][NextRecalc]_vars

(* ------------------------------ claims --------------------------------- *)
ProductUnchanged == UNCHANGED <<current_stock, sold_quantity>>

TotalsAreSums ==
    \A b \in Batches : total_profit[b] = AggregateProfit(orders, b)

StockNonNegative == \A p \in Products : current_stock[p] >= 0

\* a step of CreateOrder, TransitionOrderStatus, UpdateOrderQuantityOrPrice
\* or DeleteOrder through the REST API
ApiMutation ==
    \/ \E b \in Batches, p \in Products, q \in Quantities, up \in UnitPrices,
          oc \in OtherCostsSet, st \in RequestStatuses :
          perform_create(b, p, q, up, oc, st) \/ add_orders(b, p, q, up, oc, st)
    \/ \E i \in DOMAIN orders, st \in RequestStatuses : update_status(i, st)
    \/ \E ids \in QuerysetOrders, st \in RequestStatuses :
          batch_update_status(ids, st)
    \/ \E i \in DOMAIN orders, q \in Quantities, up \in UnitPrices,
          oc \in OtherCostsSet, st \in RequestStatuses :
          perform_update(i, q, up, oc, st)
    \/ \E i \in DOMAIN orders : perform_destroy(i)

\* a step of any operation on orders, the admin change form included
OrderStep ==
    \/ ApiMutation
    \/ \E i \in DOMAIN orders, q \in Quantities, up \in UnitPrices,
          oc \in OtherCostsSet, st \in RequestStatuses :
          save_model(i, q, up, oc, st)

\* C1: after every completed CreateOrder, TransitionOrderStatus (update_status
\* or batch_update_status), UpdateOrderQuantityOrPrice or DeleteOrder, the
\* stored total_profit of every batch is the sum of gross_profit over its
\* orders in a counted status.
C1_TotalProfitIsSumAfterMutation ==
    [][ApiMutation => TotalsAreSums']_vars

\* C2: after any save of an order its persisted derived fields agree with its
\* persisted quantity, unit_price and other_costs: sales_amount is
\* quantity * unit_price, total_cost is cost_price * quantity + other_costs
\* and gross_profit is sales_amount - total_cost.
C2_DerivedFieldsConsistent ==
    \A i \in DOMAIN orders :
        /\ orders[i].sales_amount = orders[i].quantity * orders[i].unit_price
        /\ orders[i].total_cost =
              cost_price[orders[i].product] * orders[i].quantity
              + orders[i].other_costs
        /\ orders[i].gross_profit =
              orders[i].sales_amount - orders[i].total_cost

\* the gross profit Order.save derives for quantity q at unit price up with
\* other costs oc of product p
GrossOf(p, q, up, oc) == q * up - (cost_price[p] * q + oc)

\* C3: creating an order in a counted status while the product's stock covers
\* the quantity takes exactly the quantity from current_stock, adds it to
\* sold_quantity, keeps the requested status, and leaves the batch's
\* total_profit including the new order's gross profit.
C3_CreateCountedReserves ==
    [][\A b \in Batches, p \in Products, q \in Quantities, up \in UnitPrices,
          oc \in OtherCostsSet, st \in CountedStatuses :
            ( /\ current_stock[p] >= q
              /\ \/ perform_create(b, p, q, up, oc, st)
                 \/ add_orders(b, p, q, up, oc, st) )
            => /\ current_stock'[p] = current_stock[p] - q
               /\ sold_quantity'[p] = sold_quantity[p] + q
               /\ nextId \in DOMAIN orders'
               /\ orders'[nextId].status = st
               /\ orders'[nextId].gross_profit = GrossOf(p, q, up, oc)
               /\ total_profit'[b] =
                     AggregateProfit(orders, b) + GrossOf(p, q, up, oc)]_vars

\* the first order ever created is stored in a counted status, and the
\* product and the batch carry exactly its reservation and its profit
C3_Witness ==
    /\ last.res = "ok"
    /\ nextId = 2
    /\ DOMAIN orders = {1}
    /\ orders[1].status \in CountedStatuses
    /\ current_stock[orders[1].product] = InitialStock - orders[1].quantity
    /\ sold_quantity[orders[1].product] = orders[1].quantity
    /\ total_profit[orders[1].batch] = orders[1].gross_profit

Transition(i, st) ==
    \/ update_status(i, st)
    \/ batch_update_status(<<i>>, st)
    \/ perform_update(i, orders[i].quantity, orders[i].unit_price,
                      orders[i].other_costs, st)

C6_UncountedToCountedReservesOnce ==
    [][\A i \in DOMAIN orders, st \in CountedStatuses :
            ( /\ orders[i].status \notin CountedStatuses
              /\ current_stock[orders[i].product] >= orders[i].quantity
              /\ Transition(i, st) )
            => /\ current_stock'[orders[i].product] =
                    current_stock[orders[i].product] - orders[i].quantity
               /\ sold_quantity'[orders[i].product] =
                    sold_quantity[orders[i].product] + orders[i].quantity]_vars

\* C7: a transition of an order in a counted status to cancelled or refunded
\* returns exactly the order's quantity to current_stock, takes exactly that
\* from sold_quantity, and leaves the batch's total_profit recomputed without
\* the order.
C7_CountedToCancelledReleasesOnce ==
    [][\A i \in DOMAIN orders, st \in {"cancelled", "refunded"} :
            ( orders[i].status \in CountedStatuses /\ Transition(i, st) )
            => /\ current_stock'[orders[i].product] =
                    current_stock[orders[i].product] + orders[i].quantity
               /\ sold_quantity'[orders[i].product] =
                    sold_quantity[orders[i].product] - orders[i].quantity
               /\ orders'[i].status = st
               /\ total_profit'[orders[i].batch] =
                    AggregateProfit(orders', orders[i].batch)]_vars

\* C8: stock mutation and status persistence of a status transition are one
\* unit: when update_status returns, the product has not changed while the
\* order's persisted status is still the prior one, a move from an uncounted
\* to a counted status has reserved the order's quantity, and a move from a
\* counted status to cancelled or refunded has released it.
C8_TransitionAtomic ==
    [][\A i \in DOMAIN orders, st \in ORDER_STATUS_CHOICES :
            update_status(i, st) =>
            LET p == orders[i].product
                q == orders[i].quantity
                old == orders[i].status
                new == orders'[i].status
            IN /\ ~ProductUnchanged => new # old
               /\ (old \notin CountedStatuses /\ new \in CountedStatuses)
                  => /\ current_stock'[p] = current_stock[p] - q
                     /\ sold_quantity'[p] = sold_quantity[p] + q
               /\ (old \in CountedStatuses /\ new \in {"cancelled", "refunded"})
                  => /\ current_stock'[p] = current_stock[p] + q
                     /\ sold_quantity'[p] = sold_quantity[p] - q]_vars

\* C9: no order operation drives stock negative: a step of an order creation,
\* status transition, order update or deletion taken while every product's
\* current_stock is >= 0 leaves every current_stock >= 0.
C9_StockNeverNegative ==
    [][StockNonNegative' \/ ~(StockNonNegative /\ OrderStep)]_vars

\* a reservation has been applied, and what is left of the stock does not
\* cover a pending order of the same product
C9_Witness ==
    /\ last.res = "ok"
    /\ \E i, j \in DOMAIN orders :
        /\ orders[i].product = orders[j].product
        /\ orders[i].status \in CountedStatuses
        /\ orders[j].status = "pending"
        /\ sold_quantity[orders[i].product] >= orders[i].quantity
        /\ current_stock[orders[j].product] >= 0
        /\ current_stock[orders[j].product] < orders[j].quantity
        /\ current_stock[orders[j].product] < InitialStock

RECURSIVE SumTaken(_)
SumTaken(R) ==
    IF R = {} THEN 0
    ELSE LET r == CHOOSE x \in R : TRUE
         IN mem[r].taken + SumTaken(R \ {r})

\* C10: when two transitions or counted creations on the same product run
\* concurrently, no decrement is lost and stock never becomes negative: in
\* every state current_stock is >= 0 and equals the initial stock minus the
\* units that the requests finished so far have taken.
C10_NoLostDecrement ==
    \A p \in Products :
        /\ current_stock[p] >= 0
        /\ current_stock[p] = InitialStock - SumTaken(Requests)

\* C11: an update of an order in a counted status that changes its quantity
\* and keeps its status applies the delta new_qty - old_qty to the product
\* (current_stock decreases and sold_quantity increases by the delta), and
\* a positive delta larger than current_stock is refused.
C11_QuantityDeltaApplied ==
    [][\A i \in DOMAIN orders, q \in Quantities :
            ( /\ orders[i].status \in CountedStatuses
              /\ q # orders[i].quantity
              /\ perform_update(i, q, orders[i].unit_price,
                                orders[i].other_costs, orders[i].status) )
            => LET p == orders[i].product
                   delta == q - orders[i].quantity
               IN IF delta > current_stock[p]
                  THEN last'.res = "error" /\ orders' = orders
                       /\ ProductUnchanged
                  ELSE /\ current_stock'[p] = current_stock[p] - delta
                       /\ sold_quantity'[p] = sold_quantity[p] + delta]_vars

\* the place of a status on the lifecycle pending -> confirmed -> shipping ->
\* completed; the cancelled and refund statuses come after all of them
LifecycleRank(st) ==
    CASE st = "pending" -> 0
      [] st = "confirmed" -> 1
      [] st = "shipping" -> 2
      [] st = "completed" -> 3
      [] st = "cancelled" -> 4
      [] st = "refund_requested" -> 4
      [] st = "refunding" -> 5
      [] st = "refunded" -> 6

\* a forward step of the lifecycle: along the main path, from the main path
\* into cancelled or the refund path, or along the refund path
ForwardStep(old, new) ==
    /\ LifecycleRank(new) > LifecycleRank(old)
    /\ old # "cancelled"
    /\ new = "cancelled" => LifecycleRank(old) <= 3

\* C19: the status of an existing order only moves forward: every step that
\* changes the persisted status of an order is a forward step of the
\* lifecycle, never a step back (such as completed, cancelled or refunded
\* to pending or confirmed).
C19_StatusOneDirectional ==
    [][\A i \in DOMAIN orders \cap DOMAIN orders' :
            orders'[i].status # orders[i].status
            => ForwardStep(orders[i].status, orders'[i].status)]_vars

\* the stock a movement is to leave, as the ledger rules state it
ExpectedAfter(operation_type, before, quantity) ==
    IF operation_type = "in" THEN before + quantity
    ELSE IF operation_type = "out"
    THEN (IF before - quantity >= 0 THEN before - quantity ELSE 0)
    ELSE quantity

\* the step has appended the record of movement (op, q) of product p, with
\* the stock before and after it, and has left the product at the latter
Recorded(p, op, q) ==
    /\ Len(stock_records') = Len(stock_records) + 1
    /\ SubSeq(stock_records', 1, Len(stock_records)) = stock_records
    /\ LET r == stock_records'[Len(stock_records')]
       IN /\ r.product = p /\ r.operation_type = op /\ r.quantity = q
          /\ r.before_stock = current_stock[p]
          /\ r.after_stock = ExpectedAfter(op, current_stock[p], q)
          /\ current_stock'[p] = r.after_stock

NothingRecorded == UNCHANGED <<stock_records, current_stock>>

C13_NegativeAdjustRejected ==
    [][\A p \in products, q \in MovementQuantities, a \in AfterStocks :
            stock_record_create(p, "adjust", q, a)
            => /\ q < 0 => (last'.res = "error" /\ NothingRecorded)
               /\ current_stock[p] >= 0 => current_stock'[p] >= 0]_vars

\* C16: every stock record carries the stock of its product immediately
\* before the movement, its after_stock is its operation and quantity
\* applied to its before_stock, and the movement leaves the product at
\* after_stock.
C16_RecordSnapshotsConsistent ==
    [][/\ Len(stock_records') > Len(stock_records)
          => LET r == stock_records'[Len(stock_records')]
             IN /\ r.before_stock = current_stock[r.product]
                /\ current_stock'[r.product] = r.after_stock
       /\ \A k \in DOMAIN stock_records' :
             stock_records'[k].after_stock =
                ExpectedAfter(stock_records'[k].operation_type,
                              stock_records'[k].before_stock,
                              stock_records'[k].quantity)]_vars

\* C17: the audit trail is append-only: every stock record that exists is
\* still there after any step, with the same product, operation type,
\* quantity, before_stock and after_stock.
C17_RecordsAppendOnly ==
    [][/\ Len(stock_records') >= Len(stock_records)
       /\ SubSeq(stock_records', 1, Len(stock_records)) = stock_records]_vars

\* C18: total_cost has snapshot semantics: whatever happens to the product's
\* cost_price, no step changes the unit cost on which the total_cost and the
\* gross_profit of an existing order are based (total_cost less other_costs,
\* per unit of quantity, stays what it was at creation).
C18_CostSnapshotKept ==
    [][\A i \in DOMAIN orders \cap DOMAIN orders' :
            /\ (orders'[i].total_cost - orders'[i].other_costs)
                  * orders[i].quantity
               = (orders[i].total_cost - orders[i].other_costs)
                    * orders'[i].quantity
            /\ (orders'[i].sales_amount - orders'[i].gross_profit
                  - orders'[i].other_costs) * orders[i].quantity
               = (orders[i].total_cost - orders[i].other_costs)
                    * orders'[i].quantity]_vars

\* C20: current_stock is changed only by the creation of a stock record or by
\* an order operation (reservation, release): every step that changes a
\* product's current_stock appends a stock record or is a step of an order
\* operation.
C20_StockChangedOnlyByLedger ==
    [][(\E p \in Products : current_stock'[p] # current_stock[p])
       => \/ Len(stock_records') = Len(stock_records) + 1
          \/ OrderStep]_vars

\* C14: recalculating a batch twice in a row, with nothing in between,
\* returns the same total both times and the second call makes no write of
\* total_profit.
C14_RecalculateIdempotent ==
    [][\A b \in Batches :
            ( /\ "recalculated" \in DOMAIN last
              /\ last.recalculated = b
              /\ recalculate_profit(b) )
            => /\ last'.total_profit = last.total_profit
               /\ last'.saves = 0]_vars

\* the only order was confirmed by the admin action (nothing is reserved
\* for it), which left the stored total stale; the total now includes its
\* profit, which only a recalculation with a write does, and the
\* recalculation that ran last made no write
C14_Witness ==
    /\ "recalculated" \in DOMAIN last
    /\ last.repeated
    /\ last.saves = 0
    /\ nextId = 2
    /\ DOMAIN orders = {1}
    /\ orders[1].status = "confirmed"
    /\ sold_quantity[orders[1].product] = 0
    /\ last.total_profit = orders[1].gross_profit
    /\ total_profit[orders[1].batch] = orders[1].gross_profit

\* C15: recalculations of a batch are safe next to order changes: whenever
\* no recalculation is under way, the stored total_profit of every batch is
\* the sum of gross_profit over its counted orders.
C15_RecalculateConcurrencySafe ==
    (\A r \in Requests : pc[r] \in {"idle", "done"}) => TotalsAreSums

RECURSIVE SumQuantity(_, _)
SumQuantity(ords, S) ==
    IF S = {} THEN 0
    ELSE LET i == CHOOSE j \in S : TRUE
         IN ords[i].quantity + SumQuantity(ords, S \ {i})

\* the units the ledger rules take from product p when the order rows go
\* from old to new: the quantity of every order that enters a counted
\* status, minus the quantity of every counted order that becomes cancelled
\* or refunded, plus the quantity change of every order that stays counted
UnitsTaken(old, new, p) ==
    LET both == DOMAIN old \cap DOMAIN new
        entering == {i \in DOMAIN new :
                       /\ new[i].product = p
                       /\ new[i].status \in CountedStatuses
                       /\ i \in DOMAIN old => old[i].status \notin CountedStatuses}
        released == {i \in both :
                       /\ old[i].product = p
                       /\ old[i].status \in CountedStatuses
                       /\ new[i].status \in {"cancelled", "refunded"}}
        staying == {i \in both :
                      /\ old[i].product = p
                      /\ old[i].status \in CountedStatuses
                      /\ new[i].status \in CountedStatuses}
    IN SumQuantity(new, entering) - SumQuantity(old, released)
       + SumQuantity(new, staying) - SumQuantity(old, staying)

\* C21: the stock ledger: every order operation changes current_stock by
\* exactly the reservations it consumes and releases, each counted order
\* consuming its quantity once and each release returning it once.
C21_StockLedger ==
    [][(\A p \in Products :
            current_stock'[p] =
               current_stock[p] - UnitsTaken(orders, orders', p))
       \/ ~OrderStep]_vars

\* a change of order i to status st and quantity q saved through Order.save:
\* the order update of the API or the admin change form
SaveWithQuantity(i, q, st) ==
    \/ perform_update(i, q, orders[i].unit_price, orders[i].other_costs, st)
    \/ save_model(i, q, orders[i].unit_price, orders[i].other_costs, st)

\* C22: a change from a counted status to another counted status that also
\* changes the quantity applies the quantity delta to current_stock and
\* sold_quantity; when current_stock is below a positive delta the order
\* keeps its prior status and quantity with consistent derived fields, and
\* the product is unchanged.
C22_CountedDeltaOrBlocked ==
    [][\A i \in DOMAIN orders, q \in Quantities, st \in CountedStatuses :
            ( /\ orders[i].status \in CountedStatuses
              /\ st # orders[i].status
              /\ q # orders[i].quantity
              /\ SaveWithQuantity(i, q, st) )
            => LET p == orders[i].product
                   delta == q - orders[i].quantity
               IN IF current_stock[p] >= delta
                  THEN /\ current_stock'[p] = current_stock[p] - delta
                       /\ sold_quantity'[p] = sold_quantity[p] + delta
                  ELSE /\ orders'[i].status = orders[i].status
                       /\ orders'[i].quantity = orders[i].quantity
                       /\ orders'[i].sales_amount =
                            orders'[i].quantity * orders'[i].unit_price
                       /\ orders'[i].gross_profit =
                            orders'[i].sales_amount - orders'[i].total_cost
                       /\ ProductUnchanged]_vars

\* C24: each product's sold_quantity is the sum of the quantities of its
\* orders in a counted status.
C24_SoldIsSumOfCounted ==
    \A p \in Products :
        sold_quantity[p] =
           SumQuantity(orders, {i \in DOMAIN orders :
                                  /\ orders[i].product = p
                                  /\ orders[i].status \in CountedStatuses})

\* the database after order i is moved to status st by each entry point
ViaUpdateStatus(i, st) == update_status_body(Load(orders[i]), st)

ViaBatchUpdateStatus(i, st) ==
    LET snap == [orders |-> orders, stock |-> current_stock,
                 sold |-> sold_quantity, total |-> total_profit]
    IN batch_update_loop(snap @@ [updated_count |-> 0], snap, <<i>>, st)

ViaOrderUpdate(i, st) ==
    Order_save(Load([orders[i] EXCEPT !.status = st]),
               cost_price[orders[i].product], "all")

SameOutcome(a, b, i) ==
    /\ a.stock = b.stock
    /\ a.sold = b.sold
    /\ a.orders[i].status = b.orders[i].status

\* C25: a status transition that every entry point accepts leaves the same
\* current_stock, sold_quantity and persisted status whether update_status,
\* batch_update_status with that one order, or the order update performs it.
C25_EntryPointsAgree ==
    \A i \in DOMAIN orders, st \in RequestStatuses :
        ( /\ ~update_status_short(Load(orders[i]), st)
          /\ ViaBatchUpdateStatus(i, st).updated_count = 1
          /\ OrderUpdateSerializer_validate(orders[i], orders[i].quantity, st) )
        => /\ SameOutcome(ViaUpdateStatus(i, st), ViaBatchUpdateStatus(i, st), i)
           /\ SameOutcome(ViaUpdateStatus(i, st), ViaOrderUpdate(i, st), i)

\* C26: when update_status answers with success the order's persisted status
\* is the requested one, and so it is for the order of a batch_update_status
\* that reports it updated.
C26_SuccessMeansStatusPersisted ==
    [][\A i \in DOMAIN orders, st \in ORDER_STATUS_CHOICES :
            ( /\ update_status(i, st) \/ batch_update_status(<<i>>, st)
              /\ last'.res = "ok" )
            => orders'[i].status = st]_vars

\* C27: reserve then release is a round trip: the only order ever created
\* holds its reservation (taken once from the initial stock), and moving it
\* to cancelled or refunded gives the product its initial current_stock and
\* sold_quantity back.
C27_ReserveReleaseRoundTrip ==
    [][\A st \in {"cancelled", "refunded"} :
            ( /\ nextId = 2
              /\ DOMAIN orders = {1}
              /\ orders[1].status \in CountedStatuses
              /\ current_stock[orders[1].product] =
                    InitialStock - orders[1].quantity
              /\ sold_quantity[orders[1].product] = orders[1].quantity
              /\ Transition(1, st) )
            => /\ current_stock'[orders[1].product] = InitialStock
               /\ sold_quantity'[orders[1].product] = 0]_vars

\* C28: no product's sold_quantity is ever negative.
C28_SoldNeverNegative ==
    \A p \in Products : sold_quantity[p] >= 0

\* a move of order i to status st that keeps its quantity, through any entry
\* point
TransitionKeepingQuantity(i, st) ==
    \/ Transition(i, st)
    \/ save_model(i, orders[i].quantity, orders[i].unit_price,
                  orders[i].other_costs, st)

\* the transitions with a stock effect: uncounted -> counted and
\* counted -> cancelled or refunded (a quantity change is not a transition
\* that keeps the quantity)
HasStockEffect(old, new) ==
    \/ old \notin CountedStatuses /\ new \in CountedStatuses
    \/ old \in CountedStatuses /\ new \in {"cancelled", "refunded"}

\* C23: every other status transition leaves the product's current_stock and
\* sold_quantity unchanged.
C23_OtherTransitionsKeepStock ==
    [][ProductUnchanged
       \/ ~(\E i \in DOMAIN orders, st \in ORDER_STATUS_CHOICES :
               /\ ~HasStockEffect(orders[i].status, st)
               /\ TransitionKeepingQuantity(i, st))]_vars

\* the only order ever created holds a reservation of its quantity and is
\* now refunding: a creation in that status reserves nothing, so the order
\* was moved there, by a transition without stock effect that left the
\* reservation in place
C23_Witness ==
    /\ nextId = 2
    /\ DOMAIN orders = {1}
    /\ orders[1].status = "refunding"
    /\ sold_quantity[orders[1].product] = orders[1].quantity
    /\ current_stock[orders[1].product] = InitialStock - orders[1].quantity
    /\ last.res = "ok"

\* a stock movement made through the API
MovementStep ==
    \/ \E p \in Products, op \in OPERATION_CHOICES, q \in MovementQuantities,
          a \in AfterStocks : stock_record_create(p, op, q, a)
    \/ \E p \in Products, q \in MovementQuantities : stock_in(p, q)

UnitsConserved ==
    \A p \in Products :
        current_stock'[p] + sold_quantity'[p] =
           current_stock[p] + sold_quantity[p]

\* C29: order operations conserve units: every order creation, status
\* transition, quantity update and deletion leaves current_stock +
\* sold_quantity of every product unchanged, and a stock movement never
\* changes sold_quantity.
C29_UnitsConserved ==
    [][/\ UnitsConserved \/ ~ApiMutation
       /\ UNCHANGED sold_quantity \/ ~MovementStep]_vars

\* a movement has been recorded and an order holds a reservation: the two
\* counters add up to the initial stock changed by the movement alone
C29_Witness ==
    /\ Len(stock_records) = 1
    /\ stock_records[1].after_stock # stock_records[1].before_stock
    /\ \E i \in DOMAIN orders :
          /\ orders[i].status \in CountedStatuses
          /\ sold_quantity[orders[i].product] >= orders[i].quantity
          /\ current_stock[orders[i].product]
             + sold_quantity[orders[i].product] =
                InitialStock + stock_records[1].after_stock
                - stock_records[1].before_stock

\* a deletion of one order, or of a batch with its orders
DeleteStep ==
    \/ \E i \in DOMAIN orders : perform_destroy(i)
    \/ \E b \in batches : BatchViewSet_destroy(b)

\* C30: deleting an order, or a batch with its orders, changes no product,
\* whatever the status of the deleted orders; the orders that remain are
\* untouched and the totals of the batches are recomputed over them.
C30_DeleteKeepsProducts ==
    [][~DeleteStep
       \/ /\ ProductUnchanged
          /\ DOMAIN orders' \subseteq DOMAIN orders
          /\ \A j \in DOMAIN orders' : orders'[j] = orders[j]
          /\ DOMAIN orders' # DOMAIN orders => TotalsAreSums']_vars

\* no order is left, yet units are still counted as sold: an order in a
\* counted status was deleted, alone or with its batch, and its reservation
\* stayed
C30_Witness ==
    /\ DOMAIN orders = {}
    /\ nextId > 1
    /\ last.res = "ok"
    /\ \E p \in Products :
          sold_quantity[p] > 0
          /\ current_stock[p] + sold_quantity[p] = InitialStock
    /\ TotalsAreSums

====
